---- MODULE Spec2Model ----
(***************************************************************************)
(* StockFlow: the two request handlers of the inventory backend.           *)
(*   create_product        (src/fixedApiEnd.py)                            *)
(*   get_low_stock_alerts  (src/low_stock_alert_APIEndpoint.py)            *)
(* The relational store is modelled as sets of committed rows; every       *)
(* request owns a session holding its uncommitted rows.                    *)
(***************************************************************************)
EXTENDS Integers, Sequences, FiniteSets, Bags, TLC

VARIABLES
    products,      \* committed Product rows
    inventories,   \* committed Inventory rows
    next_id,       \* next value of the Product primary-key sequence
    req,           \* per request: position, payload, session, response
    Inventory,     \* Inventory rows of the alert query's database
    SalesActivity, \* bag of SalesActivity rows (append-only)
    now,           \* datetime.utcnow(), in days
    resp,          \* the last alert response returned, in a set (empty before any call)
    dirty          \* a table changed since the last alert response

createVars == <<products, inventories, next_id, req>>
alertVars == <<Inventory, SalesActivity, now, resp, dirty>>
vars == <<products, inventories, next_id, req, Inventory, SalesActivity, now, resp, dirty>>

-----------------------------------------------------------------------------
(* Bounds of the create_product model *)
NumReq == 2
Requests == 1..NumReq

-----------------------------------------------------------------------------
(* JSON values of a request body *)
Num(n) == [t |-> "num", n |-> n, s |-> ""]
Str(s) == [t |-> "str", n |-> 0, s |-> s]
Null == [t |-> "null", n |-> 0, s |-> ""]

required_fields == {"name", "sku", "price", "warehouse_id", "initial_quantity"}

SkuInputs == {"A", "B"}
PriceInputs == {Num(5), Num(-1), Str("abc")}
QuantityInputs == {Num(3), Str("-2"), Str("x")}
WarehouseInputs == {1, 99}
FieldSets == {required_fields, required_fields \ {"initial_quantity"}, {}}

\* every combination of the other fields under SKU "A", one well-formed request
\* for SKU "B", and bodies with a required field missing
Payloads ==
    [fields : {required_fields}, sku : {"A"}, price : PriceInputs,
     warehouse_id : WarehouseInputs, initial_quantity : QuantityInputs]
    \cup
    [fields : {required_fields}, sku : {"B"}, price : {Num(5)},
     warehouse_id : {1}, initial_quantity : {Num(3)}]
    \cup
    [fields : FieldSets \ {required_fields}, sku : {"A"}, price : {Num(5)},
     warehouse_id : {1}, initial_quantity : {Num(3)}]

NoData == [fields |-> {}, sku |-> "", price |-> Null, warehouse_id |-> 0,
           initial_quantity |-> Null]

(* Warehouse rows that exist (created elsewhere) *)
WarehouseIds == {1}

-----------------------------------------------------------------------------
(* Python's numeric coercions; the result carries the exception raised *)
Ok(n) == [exc |-> "None", val |-> n]
Raise(e) == [exc |-> e, val |-> 0]

\* the decimal literals the payloads use, as Python parses them
ParseNumber(s) ==
    CASE s = "-2" -> Ok(-2)
      [] s = "5" -> Ok(5)
      [] OTHER -> Raise("ValueError")

\* float(x): a number converts, a string is parsed, None is a TypeError
ToFloat(v) ==
    CASE v.t = "num" -> Ok(v.n)
      [] v.t = "str" -> ParseNumber(v.s)
      [] OTHER -> Raise("TypeError")

\* int(x): a number converts, a string is parsed, None is a TypeError
ToInt(v) ==
    CASE v.t = "num" -> Ok(v.n)
      [] v.t = "str" -> ParseNumber(v.s)
      [] OTHER -> Raise("TypeError")

-----------------------------------------------------------------------------
(* The handler's mapping from the exception caught to the HTTP status *)

\* variant: an IntegrityError is not reported as a conflict
RespondIntegrityAsCreated(exc) ==
    CASE exc \in {"ValueError", "TypeError"} -> 400
      [] exc = "IntegrityError" -> 201
      [] OTHER -> 500

\* the except clauses of create_product
Respond(exc) ==
    CASE exc \in {"ValueError", "TypeError"} -> 400
      [] exc = "IntegrityError" -> 409
      [] OTHER -> 500

-----------------------------------------------------------------------------
(* The storage layer: constraints of the Product table *)
UniqueSku == "uq_products_sku"
FkWarehouse == "fk_products_warehouse"

\* constraints an INSERT of `row` violates against the committed rows
ViolatedConstraints(row, committed) ==
    {c \in {UniqueSku} : \E p \in committed : p.sku = row.sku /\ p.id # row.id}
    \cup {c \in {FkWarehouse} : row.warehouse_id \notin WarehouseIds}

\* variant: the row is committed as soon as it is flushed
FlushAutocommit(committed, row) == committed \cup {row}

\* the committed rows after db.session.flush() of `row`: the flushed row stays
\* inside the transaction
Flush(committed, row) == committed

\* variant: no pre-check
SkuExistsSkipped(sku) == FALSE

\* Product.query.filter_by(sku=...).first() is not None
SkuExists(sku) == \E p \in products : p.sku = sku

-----------------------------------------------------------------------------
(* The request's session *)
EmptySession == [new_products |-> {}, new_inventories |-> {}]

Rollback(session) == EmptySession

IdleReq == [pc |-> "idle", data |-> NoData, session |-> EmptySession,
            product_id |-> 0, result |-> 0, exc |-> "None", constraint |-> "",
            wrote |-> FALSE]

\* leave the handler with `status`; the session is rolled back on every error path
Return(r, status, exc, constraint) ==
    [req[r] EXCEPT !.pc = "done", !.result = status, !.exc = exc,
                   !.constraint = constraint,
                   !.session = Rollback(req[r].session)]

-----------------------------------------------------------------------------
(* create_product, step by step *)

\* the request arrives: required fields, then the SKU pre-check (a query, which
\* like every statement sent to the database can fail)
Begin(r, data) ==
    /\ UNCHANGED alertVars
    /\ req[r].pc = "idle"
    /\ LET q == [req[r] EXCEPT !.data = data] IN
       IF data.fields = {} \/ ~(required_fields \subseteq data.fields)
       THEN req' = [req EXCEPT ![r] = [q EXCEPT !.pc = "done", !.result = 400]]
       ELSE \/ IF SkuExists(data.sku)
               THEN req' = [req EXCEPT ![r] = [q EXCEPT !.pc = "done", !.result = 409]]
               ELSE req' = [req EXCEPT ![r] = [q EXCEPT !.pc = "checked"]]
            \/ req' = [req EXCEPT ![r] =
                         [q EXCEPT !.pc = "done", !.exc = "OperationalError",
                                   !.result = Respond("OperationalError"),
                                   !.session = Rollback(q.session)]]
    /\ UNCHANGED <<products, inventories, next_id>>

\* Product(...), db.session.add(product), db.session.flush()
FlushProduct(r) ==
    /\ UNCHANGED alertVars
    /\ req[r].pc = "checked"
    /\ LET d == req[r].data
           f == ToFloat(d.price)
           row == [id |-> next_id, sku |-> d.sku, price |-> f.val,
                   warehouse_id |-> d.warehouse_id]
           w == [req[r] EXCEPT !.wrote = TRUE]
       IN
       IF f.exc # "None"
       THEN /\ req' = [req EXCEPT ![r] = Return(r, Respond(f.exc), f.exc, "")]
            /\ UNCHANGED <<products, inventories, next_id>>
       ELSE \/ /\ ViolatedConstraints(row, products) = {}
               /\ req' = [req EXCEPT ![r] =
                            [w EXCEPT !.pc = "flushed", !.product_id = row.id,
                                      !.session.new_products = {row}]]
               /\ products' = Flush(products, row)
               /\ next_id' = next_id + 1
               /\ UNCHANGED inventories
            \/ /\ \E c \in ViolatedConstraints(row, products) :
                    req' = [req EXCEPT ![r] =
                              [Return(r, Respond("IntegrityError"),
                                      "IntegrityError", c) EXCEPT !.wrote = TRUE]]
               /\ UNCHANGED <<products, inventories, next_id>>
            \/ /\ req' = [req EXCEPT ![r] =
                            [Return(r, Respond("OperationalError"),
                                    "OperationalError", "") EXCEPT !.wrote = TRUE]]
               /\ UNCHANGED <<products, inventories, next_id>>

\* Inventory(...), db.session.add(inventory)
AddInventory(r) ==
    /\ UNCHANGED alertVars
    /\ req[r].pc = "flushed"
    /\ LET d == req[r].data
           q == ToInt(d.initial_quantity)
           row == [product_id |-> req[r].product_id,
                   warehouse_id |-> d.warehouse_id, quantity |-> q.val]
       IN
       IF q.exc # "None"
       THEN req' = [req EXCEPT ![r] = Return(r, Respond(q.exc), q.exc, "")]
       ELSE req' = [req EXCEPT ![r] =
                      [@ EXCEPT !.pc = "added", !.session.new_inventories = {row}]]
    /\ UNCHANGED <<products, inventories, next_id>>

\* db.session.commit(): the uniqueness constraint is decided here at the latest
Commit(r) ==
    /\ UNCHANGED alertVars
    /\ req[r].pc = "added"
    /\ LET s == req[r].session
           violated == UNION {ViolatedConstraints(row, products) : row \in s.new_products}
       IN
       \/ /\ violated = {}
          /\ products' = products \cup s.new_products
          /\ inventories' = inventories \cup s.new_inventories
          /\ req' = [req EXCEPT ![r] =
                       [@ EXCEPT !.pc = "done", !.result = 201,
                                 !.session = EmptySession]]
          /\ UNCHANGED next_id
       \/ /\ \E c \in violated :
               req' = [req EXCEPT ![r] =
                         Return(r, Respond("IntegrityError"), "IntegrityError", c)]
          /\ UNCHANGED <<products, inventories, next_id>>
       \/ /\ req' = [req EXCEPT ![r] =
                       Return(r, Respond("OperationalError"), "OperationalError", "")]
          /\ UNCHANGED <<products, inventories, next_id>>

-----------------------------------------------------------------------------
(* Python floats: IEEE-754 binary64 values m * 2^e, m held in 24-bit limbs *)
Base == 2^24
MantissaBits == 53

FromInt(n) == <<n % Base, n \div Base, 0, 0>>

Double(x) ==
    LET a1 == 2 * x[1]
        a2 == 2 * x[2] + a1 \div Base
        a3 == 2 * x[3] + a2 \div Base
        a4 == 2 * x[4] + a3 \div Base
    IN <<a1 % Base, a2 % Base, a3 % Base, a4 % Base>>

Halve(x) ==
    <<x[1] \div 2 + (x[2] % 2) * (Base \div 2),
      x[2] \div 2 + (x[3] % 2) * (Base \div 2),
      x[3] \div 2 + (x[4] % 2) * (Base \div 2),
      x[4] \div 2>>

Inc(x) ==
    LET a1 == x[1] + 1
        a2 == x[2] + a1 \div Base
        a3 == x[3] + a2 \div Base
        a4 == x[4] + a3 \div Base
    IN <<a1 % Base, a2 % Base, a3 % Base, a4 % Base>>

\* x - y for x >= y
Sub(x, y) ==
    LET a1 == x[1] - y[1] + Base
        a2 == x[2] - y[2] + Base - (1 - a1 \div Base)
        a3 == x[3] - y[3] + Base - (1 - a2 \div Base)
        a4 == x[4] - y[4] + Base - (1 - a3 \div Base)
    IN <<a1 % Base, a2 % Base, a3 % Base, a4 % Base>>

RECURSIVE CmpFrom(_, _, _)
CmpFrom(x, y, i) ==
    IF i = 0 THEN 0
    ELSE IF x[i] < y[i] THEN -1
    ELSE IF x[i] > y[i] THEN 1
    ELSE CmpFrom(x, y, i - 1)

Cmp(x, y) == CmpFrom(x, y, Len(x))

\* the recursions below carry their state in one tuple <<value, steps left>>
RECURSIVE ShlN(_)
ShlN(xk) == IF xk[2] <= 0 THEN xk[1] ELSE ShlN(<<Double(xk[1]), xk[2] - 1>>)

Shl(x, k) == ShlN(<<x, k>>)

RECURSIVE ShrN(_)
ShrN(xk) == IF xk[2] <= 0 THEN xk[1] ELSE ShrN(<<Halve(xk[1]), xk[2] - 1>>)

Shr(x, k) == ShrN(<<x, k>>)

\* scale n/d into [1, 2): the result is <<n', d', e>> with n/d = (n'/d') * 2^e
RECURSIVE Normalize(_)
Normalize(nde) ==
    IF Cmp(nde[1], nde[2]) < 0
    THEN Normalize(<<Double(nde[1]), nde[2], nde[3] - 1>>)
    ELSE IF Cmp(nde[1], Double(nde[2])) >= 0
    THEN Normalize(<<nde[1], Double(nde[2]), nde[3] + 1>>)
    ELSE nde

\* k more quotient bits of r/d appended to m, for rmk = <<r, m, k>>:
\* <<remainder, quotient, 0>>
RECURSIVE LongDiv(_, _)
LongDiv(rmk, d) ==
    IF rmk[3] = 0 THEN rmk
    ELSE LET r2 == Double(rmk[1]) IN
         IF Cmp(r2, d) >= 0
         THEN LongDiv(<<Sub(r2, d), Inc(Double(rmk[2])), rmk[3] - 1>>, d)
         ELSE LongDiv(<<r2, Double(rmk[2]), rmk[3] - 1>>, d)

\* the binary64 nearest to n/d (ties to even), for integers n > 0, d > 0
FloatDiv(n, d) ==
    LET nd == Normalize(<<n, d, 0>>)
        rq == LongDiv(<<Sub(nd[1], nd[2]), FromInt(1), MantissaBits - 1>>, nd[2])
        c == Cmp(Double(rq[1]), nd[2])
        m == IF c > 0 \/ (c = 0 /\ rq[2][1] % 2 = 1) THEN Inc(rq[2]) ELSE rq[2]
    IN [m |-> m, e |-> nd[3] - (MantissaBits - 1)]

\* int(x) of a float x >= 0 whose integer part is below 2^31
Trunc(x) ==
    LET v == IF x.e >= 0 THEN Shl(x.m, x.e) ELSE Shr(x.m, 0 - x.e)
    IN v[1] + Base * v[2]

-----------------------------------------------------------------------------
(* get_low_stock_alerts: the tables it reads *)
(* Bounds of the alert model *)
MaxSales == 2
MaxTicks == 1

recent_period_days == 30
StartDay == 100

Company == {1, 2}
Warehouse == {[id |-> 1, company_id |-> 1], [id |-> 3, company_id |-> 2]}
ProductType == {[id |-> 1, low_stock_threshold |-> 10],
                [id |-> 2, low_stock_threshold |-> 30]}
Supplier == {[id |-> 1, contact_email |-> "s1@example.com"]}
\* product_type_id / supplier_id 0 is NULL; create_product leaves both NULL
Product == {[id |-> 1, sku |-> "P1", product_type_id |-> 1, supplier_id |-> 1],
            [id |-> 2, sku |-> "P2", product_type_id |-> 2, supplier_id |-> 0],
            [id |-> 3, sku |-> "P3", product_type_id |-> 0, supplier_id |-> 0]}

Quantities == {5, 10, 23}
SaleDates == {StartDay - recent_period_days, StartDay - 1}
SoldQuantities == {0, 23, 37}
SalePairs == {<<1, 1>>, <<2, 1>>, <<1, 3>>}

-----------------------------------------------------------------------------
(* The query of get_low_stock_alerts *)

\* variant: strictly below the threshold
LowStockStrict(i, pt) == i.quantity < pt.low_stock_threshold

\* Inventory.quantity <= ProductType.low_stock_threshold
LowStock(i, pt) == i.quantity <= pt.low_stock_threshold

\* SalesActivity.sale_date >= activity_since_date
Recent(sa, since) == sa.sale_date >= since

\* the LEFT OUTER JOIN of Supplier: the supplier rows, or one NULL row
SupplierOf(p) ==
    IF \E s \in Supplier : s.id = p.supplier_id
    THEN {{s} : s \in {s \in Supplier : s.id = p.supplier_id}}
    ELSE {{}}

\* the joined, filtered rows before GROUP BY
JoinedRows(company_id, since) ==
    {row \in
       UNION {UNION {UNION {UNION {UNION {
         {[inventory |-> i, product |-> p, warehouse |-> w, product_type |-> pt,
           supplier |-> s, sale |-> sa] : sa \in BagToSet(SalesActivity)}
         : s \in SupplierOf(p)}
         : pt \in {t \in ProductType : t.id = p.product_type_id}}
         : w \in {x \in Warehouse : x.id = i.warehouse_id}}
         : p \in {x \in Product : x.id = i.product_id}}
         : i \in Inventory} :
       /\ row.sale.product_id = row.inventory.product_id
       /\ row.sale.warehouse_id = row.inventory.warehouse_id
       /\ row.warehouse.company_id = company_id
       /\ Recent(row.sale, since)
       /\ LowStock(row.inventory, row.product_type)}

GroupKey(row) == [inventory |-> row.inventory, product |-> row.product,
                  warehouse |-> row.warehouse, product_type |-> row.product_type,
                  supplier |-> row.supplier]

RECURSIVE SumSold(_)
SumSold(rows) ==
    IF rows = {} THEN 0
    ELSE LET r == CHOOSE x \in rows : TRUE IN
         r.sale.quantity_sold * CopiesIn(r.sale, SalesActivity)
           + SumSold(rows \ {r})

\* int(inventory.quantity / (total_sold / recent_period_days)) in float arithmetic
StockoutDays(quantity, total_sold) ==
    IF quantity = 0 THEN 0
    ELSE LET avg_daily_sales == FloatDiv(FromInt(total_sold), FromInt(recent_period_days))
             num == IF avg_daily_sales.e < 0
                    THEN Shl(FromInt(quantity), 0 - avg_daily_sales.e)
                    ELSE FromInt(quantity)
             den == IF avg_daily_sales.e < 0 THEN avg_daily_sales.m
                    ELSE Shl(avg_daily_sales.m, avg_daily_sales.e)
         IN Trunc(FloatDiv(num, den))

\* the quotients the bounded tables can ask for, computed once
MaxSold == CHOOSE m \in SoldQuantities : \A x \in SoldQuantities : x <= m
MaxTotal == MaxSales * MaxSold
StockoutTable ==
    [quantity \in Quantities |->
       [total_sold \in 1..MaxTotal |-> StockoutDays(quantity, total_sold)]]

\* days_until_stockout: None ({}) or the estimate ({n})
DaysUntilStockout(quantity, total_sold) ==
    IF total_sold > 0 THEN {StockoutTable[quantity][total_sold]} ELSE {}

AlertOf(g, total_sold) ==
    [product_id |-> g.product.id, sku |-> g.product.sku,
     warehouse_id |-> g.warehouse.id, current_stock |-> g.inventory.quantity,
     threshold |-> g.product_type.low_stock_threshold,
     days_until_stockout |-> DaysUntilStockout(g.inventory.quantity, total_sold),
     supplier_id |-> {s.id : s \in g.supplier}]

Alerts(company_id, since) ==
    LET rows == JoinedRows(company_id, since)
        groups == {GroupKey(row) : row \in rows}
    IN {AlertOf(g, SumSold({row \in rows : GroupKey(row) = g})) : g \in groups}

Response(company_id, since) ==
    LET alerts == Alerts(company_id, since)
    IN [company_id |-> company_id, since |-> since, alerts |-> alerts,
        total_alerts |-> Cardinality(alerts)]

-----------------------------------------------------------------------------
(* The alert handler and the collaborators that write its tables *)

\* variant: a handler that also consumes the sales it reported
GetLowStockAlertsConsuming(company_id) ==
    /\ dirty' = FALSE
    /\ UNCHANGED <<Inventory, now>>
    /\ UNCHANGED createVars
    /\ SalesActivity' = EmptyBag
    /\ resp' = {Response(company_id, now - recent_period_days)}

\* get_low_stock_alerts(company_id): one query, one response, no write
GetLowStockAlerts(company_id) ==
    /\ dirty' = FALSE
    /\ UNCHANGED <<Inventory, SalesActivity, now>>
    /\ UNCHANGED createVars
    /\ resp' = {Response(company_id, now - recent_period_days)}

\* another collaborator appends a SalesActivity row
RecordSale(pair, date, sold) ==
    /\ BagCardinality(SalesActivity) < MaxSales
    /\ SalesActivity' = SalesActivity (+) SetToBag({[product_id |-> pair[1],
                            warehouse_id |-> pair[2], sale_date |-> date,
                            quantity_sold |-> sold]})
    /\ dirty' = TRUE
    /\ UNCHANGED <<Inventory, now, resp>>
    /\ UNCHANGED createVars

\* a day passes
Tick ==
    /\ now < StartDay + MaxTicks
    /\ now' = now + 1
    /\ UNCHANGED <<Inventory, SalesActivity, resp, dirty>>
    /\ UNCHANGED createVars

InitAlerts ==
    /\ \E q1 \in Quantities, q2 \in Quantities :
         Inventory = {[id |-> 1, product_id |-> 1, warehouse_id |-> 1, quantity |-> q1],
                      [id |-> 2, product_id |-> 2, warehouse_id |-> 1, quantity |-> q2],
                      [id |-> 3, product_id |-> 1, warehouse_id |-> 3, quantity |-> 5],
                      [id |-> 4, product_id |-> 3, warehouse_id |-> 1, quantity |-> 5]}
    /\ SalesActivity = EmptyBag
    /\ now = StartDay
    /\ resp = {}
    /\ dirty = FALSE
    /\ products = {}
    /\ inventories = {}
    /\ next_id = 1
    /\ req = [r \in Requests |-> IdleReq]

NextAlerts ==
    \/ \E c \in Company : GetLowStockAlerts(c)
    \/ \E pair \in SalePairs, date \in SaleDates, sold \in SoldQuantities :
         RecordSale(pair, date, sold)
    \/ Tick

SpecAlerts == InitAlerts /\ [][NextAlerts]_vars

-----------------------------------------------------------------------------
Init ==
    /\ products = {}
    /\ inventories = {}
    /\ next_id = 1
    /\ req = [r \in Requests |-> IdleReq]
    /\ Inventory = {}
    /\ SalesActivity = EmptyBag
    /\ now = StartDay
    /\ resp = {}
    /\ dirty = FALSE

Next ==
    \/ \E r \in Requests, data \in Payloads : Begin(r, data)
    \/ \E r \in Requests : FlushProduct(r)
    \/ \E r \in Requests : AddInventory(r)
    \/ \E r \in Requests : Commit(r)

Spec == Init /\ [][Next]_vars

-----------------------------------------------------------------------------
(* Properties of create_product (specification Spec) *)

Done(r) == req[r].pc = "done"
HasAllFields(r) == required_fields \subseteq req[r].data.fields
\* the request got as far as the SKU pre-check, its first database access
ReachedDatabase(r) == req[r].pc # "idle" /\ HasAllFields(r)
Uncoercible(r) ==
    \/ ToFloat(req[r].data.price).exc # "None"
    \/ ToInt(req[r].data.initial_quantity).exc # "None"
RowsOf(r) ==
    {p \in products : p.id = req[r].product_id}
      \cup {i \in inventories : i.product_id = req[r].product_id}
Created(sku) == {r \in Requests : Done(r) /\ req[r].data.sku = sku /\ req[r].result = 201}

C2_AllOrNothing ==
    /\ \A r \in Requests :
         LET ps == {p \in products : p.id = req[r].product_id}
             is == {i \in inventories : i.product_id = req[r].product_id}
         IN IF Done(r) /\ req[r].result = 201
            THEN Cardinality(ps) = 1 /\ Cardinality(is) = 1
            ELSE ps = {} /\ is = {}
    /\ \A p \in products :
         /\ Cardinality({i \in inventories : i.product_id = p.id}) = 1
         /\ \E r \in Requests : Done(r) /\ req[r].result = 201 /\ req[r].product_id = p.id
    /\ \A i \in inventories : \E p \in products : p.id = i.product_id

\* one request committed both rows; another failed after its product was flushed
C2_Witness ==
    \E r1, r2 \in Requests :
      /\ Done(r1) /\ req[r1].result = 201
      /\ Done(r2) /\ req[r2].result = 400 /\ req[r2].product_id # 0

\* C3 as stated: a request whose sku is that of a committed Product is answered
\* 409, whatever its other fields, and changes no Product or Inventory row.
\* (Requests the database itself failed are left out.)
C3_ExistingSkuAlways409 ==
    [][\A r \in Requests :
         (/\ req[r].pc = "idle" /\ req'[r].pc # "idle"
          /\ "sku" \in req'[r].data.fields
          /\ req'[r].exc # "OperationalError"
          /\ \E p \in products : p.sku = req'[r].data.sku)
         => (/\ req'[r].pc = "done" /\ req'[r].result = 409
             /\ products' = products /\ inventories' = inventories)]_vars

\* C3 amended: the same for a request that has all five required fields and whose
\* pre-check query runs; with a field missing the answer is 400, with the query
\* failing 500, and still no row changes.
C3_ExistingSku409 ==
    [][\A r \in Requests :
         (/\ req[r].pc = "idle" /\ req'[r].pc # "idle"
          /\ "sku" \in req'[r].data.fields
          /\ \E p \in products : p.sku = req'[r].data.sku)
         => (/\ req'[r].pc = "done"
             /\ req'[r].result =
                  (IF ~(required_fields \subseteq req'[r].data.fields) THEN 400
                   ELSE IF req'[r].exc = "OperationalError" THEN 500
                   ELSE 409)
             /\ products' = products /\ inventories' = inventories)]_vars

\* a request with an existing SKU and a non-numeric price was answered 409 by
\* the pre-check
C3_Witness ==
    \E r \in Requests :
      /\ Done(r) /\ HasAllFields(r) /\ req[r].result = 409 /\ req[r].exc = "None"
      /\ ToFloat(req[r].data.price).exc # "None"
      /\ \E p \in products : p.sku = req[r].data.sku
      /\ RowsOf(r) = {}

\* C4 as stated: a request with all five fields whose price or initial_quantity
\* cannot be coerced is answered 400 and commits no row. (Requests the database
\* itself failed are left out.)
C4_Uncoercible400 ==
    \A r \in Requests :
      (Done(r) /\ HasAllFields(r) /\ Uncoercible(r) /\ req[r].exc # "OperationalError")
        => (req[r].result = 400 /\ RowsOf(r) = {})

\* C7 as stated: a persistence failure other than the SKU uniqueness constraint
\* is answered 500, 409 is answered only for the SKU, and a failed request
\* leaves no row.
C7_OnlySkuIs409 ==
    \A r \in Requests :
      Done(r) =>
        /\ (req[r].exc = "OperationalError"
              \/ (req[r].exc = "IntegrityError" /\ req[r].constraint # UniqueSku))
             => req[r].result = 500
        /\ req[r].result = 409 => (req[r].exc = "None" \/ req[r].constraint = UniqueSku)
        /\ req[r].result # 201 => RowsOf(r) = {}

\* C8 as stated: a request answered 400 has not added or flushed a row before
\* the validation failure.
C8_ValidationBeforeWrite ==
    \A r \in Requests : (Done(r) /\ req[r].result = 400) => ~req[r].wrote

\* C10 as stated: every committed Inventory row has quantity >= 0 and every
\* committed Product row has price >= 0.
C10_NonNegative ==
    /\ \A i \in inventories : i.quantity >= 0
    /\ \A p \in products : p.price >= 0

-----------------------------------------------------------------------------
(* Properties of get_low_stock_alerts (specification SpecAlerts) *)

\* the response was computed from the tables and the window as they are now
Current(r) == ~dirty /\ r.since = now - recent_period_days

InCompany(i, company_id) ==
    \E w \in Warehouse : w.id = i.warehouse_id /\ w.company_id = company_id
AtOrBelowThreshold(i) ==
    \E p \in Product, pt \in ProductType :
      /\ p.id = i.product_id /\ pt.id = p.product_type_id
      /\ i.quantity <= pt.low_stock_threshold
SalesInWindow(i, since) ==
    {sa \in BagToSet(SalesActivity) :
       /\ sa.product_id = i.product_id /\ sa.warehouse_id = i.warehouse_id
       /\ sa.sale_date >= since}
Qualifying(company_id, since) ==
    {i \in Inventory : /\ InCompany(i, company_id)
                       /\ AtOrBelowThreshold(i)
                       /\ SalesInWindow(i, since) # {}}

RECURSIVE TotalOf(_)
TotalOf(sales) ==
    IF sales = {} THEN 0
    ELSE LET sa == CHOOSE x \in sales : TRUE IN
         sa.quantity_sold * CopiesIn(sa, SalesActivity) + TotalOf(sales \ {sa})

\* C5: the response holds exactly one alert per inventory row that is in the
\* company, at or below its product type's threshold and sold at least once in
\* the window, no alert for any other row, and total_alerts counts them.
C5_ExactAlerts ==
    \A r \in resp :
      Current(r) =>
        /\ \A i \in Qualifying(r.company_id, r.since) :
             Cardinality({a \in r.alerts : /\ a.product_id = i.product_id
                                           /\ a.warehouse_id = i.warehouse_id
                                           /\ a.current_stock = i.quantity}) = 1
        /\ \A a \in r.alerts :
             \E i \in Qualifying(r.company_id, r.since) :
               a.product_id = i.product_id /\ a.warehouse_id = i.warehouse_id
        /\ Cardinality(r.alerts) = Cardinality(Qualifying(r.company_id, r.since))
        /\ r.total_alerts = Cardinality(r.alerts)

\* company 1 got an alert while one of its low rows had no recent sale and a row
\* of company 2 qualified
C5_Witness ==
    \E r \in resp :
      /\ Current(r) /\ r.company_id = 1 /\ r.total_alerts >= 1
      /\ \E i \in Inventory :
           /\ InCompany(i, 1) /\ AtOrBelowThreshold(i)
           /\ SalesInWindow(i, r.since) = {}
      /\ Qualifying(2, r.since) # {}
      /\ \E a \in r.alerts : a.current_stock = a.threshold

\* C6 as stated: with total_sold the sum of quantity_sold inside the window,
\* days_until_stockout is floor(30 * quantity / total_sold) when total_sold > 0
\* and null otherwise.
C6_ExactFloor ==
    \A r \in resp :
      Current(r) =>
        \A a \in r.alerts :
          \A i \in {x \in Inventory : /\ x.product_id = a.product_id
                                      /\ x.warehouse_id = a.warehouse_id} :
            LET total_sold == TotalOf(SalesInWindow(i, r.since))
            IN a.days_until_stockout =
                 (IF total_sold > 0
                  THEN {(recent_period_days * i.quantity) \div total_sold}
                  ELSE {})

====
